---- MODULE Spec2Model ----
(***************************************************************************)
(* Model of src/app.py: a Streamlit script that loads up to three uploaded *)
(* tabular files, asks a remote generative-text model for a summary of     *)
(* each, and renders the summaries and a table/chart view of the data.     *)
(*                                                                         *)
(* Python str values are tuples of one-character strings, so that          *)
(* str.endswith, f-string concatenation and emptiness are computed.        *)
(* Other Python values are records carrying a "kind" field.                *)
(***************************************************************************)
EXTENDS Integers, Sequences, FiniteSets, TLC

VARIABLES
    API_KEY,          \* os.getenv("GEMINI_API_KEY"), fixed for the process
    pc,               \* position of the script run
    button,           \* st.button(...) of this run: TRUE iff the run was triggered by a click
    balance_file, profit_file, cash_file,          \* the three st.file_uploader widgets
    balance_data, profit_data, cash_data,          \* handler locals, lines 176-178
    balance_summary, profit_summary, cash_summary, \* handler locals, lines 181-191
    screen,           \* the st.* elements emitted by this run, in order
    log,              \* load_file / generate_summary / visualize invocations of this run, in order
    calls,            \* exchanges with model.generate_content in this run, in order
    test,             \* unit harness: the function under test and its arguments
    result            \* unit harness: what the call returned, called and displayed

vars == <<API_KEY, pc, button, balance_file, profit_file, cash_file,
          balance_data, profit_data, cash_data,
          balance_summary, profit_summary, cash_summary,
          screen, log, calls, test, result>>

(***************************************************************************)
(* Bounds of the model.                                                    *)
(***************************************************************************)
MaxCols == 2
MaxRows == 1

(***************************************************************************)
(* Python values.                                                          *)
(***************************************************************************)
None == [kind |-> "None"]

\* a local name that has not been bound yet in this run
Unbound == [kind |-> "unbound"]
UnboundStr == <<"<unbound>">>

Str(chars) == [kind |-> "str", chars |-> chars]

\* Python truthiness of an Optional[str]
Truthy(v) == v.kind = "str" /\ v.chars # <<>>

\* str.endswith
endswith(s, suffix) ==
    /\ Len(s) >= Len(suffix)
    /\ SubSeq(s, Len(s) - Len(suffix) + 1, Len(s)) = suffix

startswith(s, prefix) ==
    /\ Len(s) >= Len(prefix)
    /\ SubSeq(s, 1, Len(prefix)) = prefix

DOT_CSV == <<".", "c", "s", "v">>
DOT_XLSX == <<".", "x", "l", "s", "x">>
NO_DATA_FOUND == <<"N","o"," ","d","a","t","a"," ","f","o","u","n","d",".">>
AI_ERROR == <<"A","I"," ","E","r","r","o","r",":"," ">>

(***************************************************************************)
(* pandas.DataFrame: named, typed columns and a row count.  Cells are      *)
(* abstracted to the dtype of their column.                                *)
(***************************************************************************)
DTypes == {"int64", "float64", "bool", "object"}

\* the dtypes select_dtypes(include="number") keeps
NumberDTypes == {"int64", "float64"}

RECURSIVE SeqsUpTo(_, _)
SeqsUpTo(S, n) ==
    IF n = 0 THEN {<<>>}
    ELSE LET shorter == SeqsUpTo(S, n - 1)
         IN  shorter \cup {Append(s, x) : s \in {t \in shorter : Len(t) = n - 1}, x \in S}

DataFrame(dtypes, nrows) ==
    [kind |-> "DataFrame",
     columns |-> [i \in 1..Len(dtypes) |-> [name |-> i, dtype |-> dtypes[i]]],
     nrows |-> nrows]

Frames == {DataFrame(d, n) : d \in SeqsUpTo(DTypes, MaxCols), n \in 0..MaxRows}

\* DataFrame.empty: True when any axis has length 0
empty(df) == Len(df.columns) = 0 \/ df.nrows = 0

IsNumber(col) == col.dtype \in NumberDTypes

\* DataFrame.select_dtypes(include="number")
select_dtypes_number(df) ==
    [kind |-> "DataFrame", columns |-> SelectSeq(df.columns, IsNumber), nrows |-> df.nrows]

\* DataFrame.to_dict(): column name -> (row index -> cell)
to_dict(df) ==
    [name \in {df.columns[i].name : i \in 1..Len(df.columns)} |->
        [row \in 0..(df.nrows - 1) |->
            (CHOOSE c \in {df.columns[i] : i \in 1..Len(df.columns)} : c.name = name).dtype]]

(***************************************************************************)
(* Calls either return a value or raise.                                   *)
(***************************************************************************)
Return(v) == [kind |-> "return", value |-> v]
Raise(e) == [kind |-> "raise", exc |-> e]

\* an exception object; base is the builtin root class it derives from
Exc(base, msg) == [kind |-> "exception", base |-> base, msg |-> msg]

ParserError == Exc("Exception", <<"p","a","r","s","e">>)

\* An uploaded file: its name, and what each pandas reader makes of its bytes
\* (a DataFrame, or an exception).
UploadedFile(name, as_csv, as_xlsx) ==
    [kind |-> "UploadedFile", name |-> name, as_csv |-> as_csv, as_xlsx |-> as_xlsx]

read_csv(file) ==
    IF file.as_csv.kind = "DataFrame" THEN Return(file.as_csv) ELSE Raise(file.as_csv)

read_excel(file) ==
    IF file.as_xlsx.kind = "DataFrame" THEN Return(file.as_xlsx) ELSE Raise(file.as_xlsx)

\* load_file with "except Exception:" in place of the bare "except:"
load_file_ExceptException(file) ==
    IF file = None THEN Return(None)
    ELSE LET body == IF endswith(file.name, DOT_CSV) THEN read_csv(file)
                     ELSE IF endswith(file.name, DOT_XLSX) THEN read_excel(file)
                     ELSE Return(None)
         IN  IF body.kind = "raise" /\ body.exc.base = "Exception" THEN Return(None) ELSE body

\* load_file giving an empty frame, not None, when there is no file
load_file_EmptyFrame(file) ==
    IF file = None THEN Return(DataFrame(<<>>, 0))
    ELSE LET body == IF endswith(file.name, DOT_CSV) THEN read_csv(file)
                     ELSE IF endswith(file.name, DOT_XLSX) THEN read_excel(file)
                     ELSE Return(None)
         IN  IF body.kind = "raise" THEN Return(None) ELSE body

(***************************************************************************)
(* load_file, lines 37-54.  The bare "except:" turns every raise of the    *)
(* try body into return None.                                              *)
(***************************************************************************)
load_file(file) ==
    IF file = None THEN Return(None)
    ELSE LET body == IF endswith(file.name, DOT_CSV) THEN read_csv(file)
                     ELSE IF endswith(file.name, DOT_XLSX) THEN read_excel(file)
                     ELSE Return(None)
         IN  IF body.kind = "raise" THEN Return(None) ELSE body

(***************************************************************************)
(* generate_summary, lines 61-95.  remote is what the service does with    *)
(* the prompt: model.generate_content(prompt) followed by response.text    *)
(* either yields a text or raises.  The value carries the exchanges with   *)
(* the service that the call made.                                         *)
(***************************************************************************)
Prompt(doc_type, data_dict) == [doc_type |-> doc_type, data_dict |-> data_dict]

generate_content(prompt, remote) == remote

\* str(e) of f"AI Error: {e}"
str(e) == e.msg

\* one round trip to the service
Exchange(prompt, response) == [prompt |-> prompt, response |-> response]

Returned(v, exchanges) == [kind |-> "return", value |-> v, calls |-> exchanges]
Raised(e, exchanges) == [kind |-> "raise", exc |-> e, calls |-> exchanges]

\* generate_summary without the try/except around the remote call
generate_summary_NoTry(data, doc_type, remote) ==
    IF data = None THEN Returned(NO_DATA_FOUND, <<>>)
    ELSE LET prompt == Prompt(doc_type, to_dict(data))
             response == generate_content(prompt, remote)
             sent == <<Exchange(prompt, response)>>
         IN  IF response.kind = "return" THEN Returned(response.value, sent)
             ELSE Raised(response.exc, sent)

\* generate_summary returning str(e) without the "AI Error: " prefix
generate_summary_NoPrefix(data, doc_type, remote) ==
    IF data = None THEN Returned(NO_DATA_FOUND, <<>>)
    ELSE LET prompt == Prompt(doc_type, to_dict(data))
             response == generate_content(prompt, remote)
             sent == <<Exchange(prompt, response)>>
         IN  IF response.kind = "return" THEN Returned(response.value, sent)
             ELSE IF response.exc.base = "Exception"
                  THEN Returned(str(response.exc), sent)
                  ELSE Raised(response.exc, sent)

\* generate_summary asking the service before it looks at the document
generate_summary_CallFirst(data, doc_type, remote) ==
    LET prompt == Prompt(doc_type, IF data = None THEN <<>> ELSE to_dict(data))
        response == generate_content(prompt, remote)
        sent == <<Exchange(prompt, response)>>
    IN  IF data = None THEN Returned(NO_DATA_FOUND, sent)
        ELSE IF response.kind = "return" THEN Returned(response.value, sent)
        ELSE IF response.exc.base = "Exception"
             THEN Returned(AI_ERROR \o str(response.exc), sent)
             ELSE Raised(response.exc, sent)

\* generate_summary asking the service a second time after a failure
generate_summary_Retry(data, doc_type, remote) ==
    IF data = None THEN Returned(NO_DATA_FOUND, <<>>)
    ELSE LET prompt == Prompt(doc_type, to_dict(data))
             response == generate_content(prompt, remote)
             sent == <<Exchange(prompt, response)>>
         IN  IF response.kind = "return" THEN Returned(response.value, sent)
             ELSE IF response.exc.base = "Exception"
                  THEN Returned(AI_ERROR \o str(response.exc), sent \o sent)
                  ELSE Raised(response.exc, sent)

generate_summary(data, doc_type, remote) ==
    IF data = None THEN Returned(NO_DATA_FOUND, <<>>)
    ELSE LET prompt == Prompt(doc_type, to_dict(data))
             response == generate_content(prompt, remote)
             sent == <<Exchange(prompt, response)>>
         IN  IF response.kind = "return" THEN Returned(response.value, sent)
             ELSE IF response.exc.base = "Exception"
                  THEN Returned(AI_ERROR \o str(response.exc), sent)
                  ELSE Raised(response.exc, sent)

(***************************************************************************)
(* Streamlit elements: the st.* call, its label or message, the text it    *)
(* writes, the frame it shows.                                             *)
(***************************************************************************)
El(st, label, text, data) == [st |-> st, label |-> label, text |-> text, data |-> data]

\* visualize testing for numeric columns only, not for DataFrame.empty
visualize_ColumnsOnly(title, data) ==
    <<El("subheader", title, <<>>, None)>> \o
    (IF data # None
     THEN LET numeric == select_dtypes_number(data)
          IN  <<El("dataframe", "", <<>>, data)>> \o
              (IF Len(numeric.columns) > 0
               THEN <<El("line_chart", "", <<>>, numeric)>>
               ELSE <<El("info", "No numeric data available", <<>>, None)>>)
     ELSE <<El("warning", "No data uploaded", <<>>, None)>>)

\* visualize, lines 102-118: the elements it emits, in order
visualize(title, data) ==
    <<El("subheader", title, <<>>, None)>> \o
    (IF data # None
     THEN LET numeric == select_dtypes_number(data)
          IN  <<El("dataframe", "", <<>>, data)>> \o
              (IF ~empty(numeric)
               THEN <<El("line_chart", "", <<>>, numeric)>>
               ELSE <<El("info", "No numeric data available", <<>>, None)>>)
     ELSE <<El("warning", "No data uploaded", <<>>, None)>>)

(***************************************************************************)
(* The script run.  Streamlit executes the script top to bottom on every   *)
(* interaction; widget values survive between runs, locals do not.         *)
(***************************************************************************)
KeyChars == <<"k">>

\* what os.getenv can give: unset, set but empty, set
EnvValues == {None, Str(<<>>), Str(KeyChars)}

NameCsv == <<"a", ".", "c", "s", "v">>
NameXlsx == <<"b", ".", "x", "l", "s", "x">>
NameUpperCsv == <<"C", ".", "C", "S", "V">>

\* names the uploader lets through: type=["csv", "xlsx"], lines 147-162
UploadNames == {NameCsv, NameXlsx, NameUpperCsv}

\* a two-column csv text, a header-only workbook, bytes no reader accepts
CsvMixed == [as_csv |-> DataFrame(<<"int64", "object">>, 1), as_xlsx |-> ParserError]
XlsxHeaderOnly == [as_csv |-> ParserError, as_xlsx |-> DataFrame(<<"object">>, 0)]
Garbage == [as_csv |-> ParserError, as_xlsx |-> ParserError]

UploadContents == {CsvMixed, XlsxHeaderOnly, Garbage}

Uploads == {UploadedFile(n, c.as_csv, c.as_xlsx) : n \in UploadNames, c \in UploadContents}

\* what the remote service may do with one prompt
Texts == {<<>>, <<"o", "k">>, AI_ERROR \o <<"?">>}
ErrorMessages == {<<>>, <<"t","i","m","e","o","u","t">>}
Remotes == {Return(t) : t \in Texts} \cup {Raise(Exc("Exception", m)) : m \in ErrorMessages}

Ev(op, arg, data) == [op |-> op, arg |-> arg, data |-> data]

Init ==
    /\ API_KEY \in EnvValues
    /\ pc = "start"
    /\ button = FALSE
    /\ balance_file = None /\ profit_file = None /\ cash_file = None
    /\ balance_data = Unbound /\ profit_data = Unbound /\ cash_data = Unbound
    /\ balance_summary = UnboundStr /\ profit_summary = UnboundStr /\ cash_summary = UnboundStr
    /\ screen = <<>> /\ log = <<>> /\ calls = <<>>
    /\ test = [fn |-> "none"]
    /\ result = None

files == <<balance_file, profit_file, cash_file>>
datas == <<balance_data, profit_data, cash_data>>
summaries == <<balance_summary, profit_summary, cash_summary>>
harness == <<test, result>>

\* the key check without st.stop()
CheckApiKey_NoStop ==
    /\ pc = "start"
    /\ IF ~Truthy(API_KEY)
       THEN screen' = Append(screen, El("error", "API Key not found! Check .env file", <<>>, None))
       ELSE screen' = screen
    /\ pc' = "page"
    /\ UNCHANGED <<API_KEY, button, files, datas, summaries, log, calls, harness>>

\* lines 13-21: without a key, st.error and st.stop
CheckApiKey ==
    /\ pc = "start"
    /\ IF ~Truthy(API_KEY)
       THEN /\ screen' = Append(screen, El("error", "API Key not found! Check .env file", <<>>, None))
            /\ pc' = "stopped"
       ELSE /\ screen' = screen
            /\ pc' = "page"
    /\ UNCHANGED <<API_KEY, button, files, datas, summaries, log, calls, harness>>

\* lines 125-171: title, the three uploaders, the button
RenderPage ==
    /\ pc = "page"
    /\ screen' = screen \o
         << El("title", "AI Financial Document Analyzer", <<>>, None),
            El("header", "Upload Files", <<>>, None),
            El("file_uploader", "Balance Sheet", <<>>, balance_file),
            El("file_uploader", "Profit & Loss", <<>>, profit_file),
            El("file_uploader", "Cash Flow", <<>>, cash_file),
            El("button", "Generate Report", <<>>, None) >>
    /\ pc' = IF button THEN "load_balance" ELSE "footer"
    /\ UNCHANGED <<API_KEY, button, files, datas, summaries, log, calls, harness>>

\* an exception no handler catches ends the run; Streamlit shows it
Uncaught(e) ==
    /\ pc' = "crashed"
    /\ screen' = Append(screen, El("exception", "", str(e), None))

\* line 176
LoadBalance ==
    /\ pc = "load_balance"
    /\ LET r == load_file(balance_file)
       IN  IF r.kind = "return"
           THEN balance_data' = r.value /\ pc' = "load_profit" /\ screen' = screen
           ELSE balance_data' = balance_data /\ Uncaught(r.exc)
    /\ log' = Append(log, Ev("load_file", "balance_file", balance_file))
    /\ UNCHANGED <<API_KEY, button, files, profit_data, cash_data, summaries, calls, harness>>

\* line 177
LoadProfit ==
    /\ pc = "load_profit"
    /\ LET r == load_file(profit_file)
       IN  IF r.kind = "return"
           THEN profit_data' = r.value /\ pc' = "load_cash" /\ screen' = screen
           ELSE profit_data' = profit_data /\ Uncaught(r.exc)
    /\ log' = Append(log, Ev("load_file", "profit_file", profit_file))
    /\ UNCHANGED <<API_KEY, button, files, balance_data, cash_data, summaries, calls, harness>>

\* line 178
LoadCash ==
    /\ pc = "load_cash"
    /\ LET r == load_file(cash_file)
       IN  IF r.kind = "return"
           THEN cash_data' = r.value /\ pc' = "summary_balance" /\ screen' = screen
           ELSE cash_data' = cash_data /\ Uncaught(r.exc)
    /\ log' = Append(log, Ev("load_file", "cash_file", cash_file))
    /\ UNCHANGED <<API_KEY, button, files, balance_data, profit_data, summaries, calls, harness>>

\* lines 181-183
SummarizeBalance ==
    /\ pc = "summary_balance"
    /\ \E remote \in Remotes :
         LET r == generate_summary(balance_data, "Balance Sheet", remote)
         IN  /\ calls' = calls \o r.calls
             /\ IF r.kind = "return"
                THEN balance_summary' = r.value /\ pc' = "summary_profit" /\ screen' = screen
                ELSE balance_summary' = balance_summary /\ Uncaught(r.exc)
    /\ log' = Append(log, Ev("generate_summary", "Balance Sheet", balance_data))
    /\ UNCHANGED <<API_KEY, button, files, datas, profit_summary, cash_summary, harness>>

\* the second summary made from the third slot's document
SummarizeProfit_CashData ==
    /\ pc = "summary_profit"
    /\ \E remote \in Remotes :
         LET r == generate_summary(cash_data, "Profit and Loss", remote)
         IN  /\ calls' = calls \o r.calls
             /\ IF r.kind = "return"
                THEN profit_summary' = r.value /\ pc' = "summary_cash" /\ screen' = screen
                ELSE profit_summary' = profit_summary /\ Uncaught(r.exc)
    /\ log' = Append(log, Ev("generate_summary", "Profit and Loss", cash_data))
    /\ UNCHANGED <<API_KEY, button, files, datas, balance_summary, cash_summary, harness>>

\* the summaries displayed right after the second one is made
SummarizeProfit_ShowEarly ==
    /\ pc = "summary_profit"
    /\ \E remote \in Remotes :
         LET r == generate_summary(profit_data, "Profit and Loss", remote)
         IN  /\ calls' = calls \o r.calls
             /\ IF r.kind = "return"
                THEN profit_summary' = r.value /\ pc' = "show_summaries" /\ screen' = screen
                ELSE profit_summary' = profit_summary /\ Uncaught(r.exc)
    /\ log' = Append(log, Ev("generate_summary", "Profit and Loss", profit_data))
    /\ UNCHANGED <<API_KEY, button, files, datas, balance_summary, cash_summary, harness>>

\* lines 185-187
SummarizeProfit ==
    /\ pc = "summary_profit"
    /\ \E remote \in Remotes :
         LET r == generate_summary(profit_data, "Profit and Loss", remote)
         IN  /\ calls' = calls \o r.calls
             /\ IF r.kind = "return"
                THEN profit_summary' = r.value /\ pc' = "summary_cash" /\ screen' = screen
                ELSE profit_summary' = profit_summary /\ Uncaught(r.exc)
    /\ log' = Append(log, Ev("generate_summary", "Profit and Loss", profit_data))
    /\ UNCHANGED <<API_KEY, button, files, datas, balance_summary, cash_summary, harness>>

\* lines 189-191
SummarizeCash ==
    /\ pc = "summary_cash"
    /\ \E remote \in Remotes :
         LET r == generate_summary(cash_data, "Cash Flow", remote)
         IN  /\ calls' = calls \o r.calls
             /\ IF r.kind = "return"
                THEN cash_summary' = r.value /\ pc' = "show_summaries" /\ screen' = screen
                ELSE cash_summary' = cash_summary /\ Uncaught(r.exc)
    /\ log' = Append(log, Ev("generate_summary", "Cash Flow", cash_data))
    /\ UNCHANGED <<API_KEY, button, files, datas, balance_summary, profit_summary, harness>>

\* lines 198-215: the three summary panels
ShowSummaries ==
    /\ pc = "show_summaries"
    /\ screen' = screen \o
         << El("success", "Analysis Completed", <<>>, None),
            El("header", "AI Summaries", <<>>, None),
            El("write", "Balance Sheet", balance_summary, None),
            El("write", "Profit & Loss", profit_summary, None),
            El("write", "Cash Flow", cash_summary, None),
            El("header", "Visualizations", <<>>, None) >>
    /\ log' = log \o << Ev("st.write", "Balance Sheet", None), Ev("st.write", "Profit & Loss", None),
                        Ev("st.write", "Cash Flow", None) >>
    /\ pc' = "visualize_balance"
    /\ UNCHANGED <<API_KEY, button, files, datas, summaries, calls, harness>>

\* line 220
VisualizeBalance ==
    /\ pc = "visualize_balance"
    /\ screen' = screen \o visualize("Balance Sheet Data", balance_data)
    /\ log' = Append(log, Ev("visualize", "Balance Sheet Data", balance_data))
    /\ pc' = "visualize_profit"
    /\ UNCHANGED <<API_KEY, button, files, datas, summaries, calls, harness>>

\* line 222
VisualizeProfit ==
    /\ pc = "visualize_profit"
    /\ screen' = screen \o visualize("Profit & Loss Data", profit_data)
    /\ log' = Append(log, Ev("visualize", "Profit & Loss Data", profit_data))
    /\ pc' = "visualize_cash"
    /\ UNCHANGED <<API_KEY, button, files, datas, summaries, calls, harness>>

\* line 224
VisualizeCash ==
    /\ pc = "visualize_cash"
    /\ screen' = screen \o visualize("Cash Flow Data", cash_data)
    /\ log' = Append(log, Ev("visualize", "Cash Flow Data", cash_data))
    /\ pc' = "footer"
    /\ UNCHANGED <<API_KEY, button, files, datas, summaries, calls, harness>>

\* lines 231-237
Footer ==
    /\ pc = "footer"
    /\ screen' = Append(screen, El("markdown", "Developed by Appu using Streamlit & Gemini AI", <<>>, None))
    /\ pc' = "done"
    /\ UNCHANGED <<API_KEY, button, files, datas, summaries, log, calls, harness>>

\* a new run starts from the top with fresh locals and an empty page
Rerun(clicked) ==
    /\ pc' = "start"
    /\ button' = clicked
    /\ balance_data' = Unbound /\ profit_data' = Unbound /\ cash_data' = Unbound
    /\ balance_summary' = UnboundStr /\ profit_summary' = UnboundStr /\ cash_summary' = UnboundStr
    /\ screen' = <<>> /\ log' = <<>> /\ calls' = <<>>

\* the user puts a file into, or clears, one uploader: the script reruns
Upload ==
    /\ pc = "done"
    /\ \E f \in Uploads \cup {None} :
         \/ balance_file' = f /\ UNCHANGED <<profit_file, cash_file>>
         \/ profit_file' = f /\ UNCHANGED <<balance_file, cash_file>>
         \/ cash_file' = f /\ UNCHANGED <<balance_file, profit_file>>
    /\ Rerun(FALSE)
    /\ UNCHANGED <<API_KEY, harness>>

\* the user presses the button: the script reruns with st.button(...) true
Click ==
    /\ pc = "done"
    /\ Rerun(TRUE)
    /\ UNCHANGED <<API_KEY, files, harness>>

\* the user reloads the page after st.stop(): a new session
Reload ==
    /\ pc = "stopped"
    /\ balance_file' = None /\ profit_file' = None /\ cash_file' = None
    /\ Rerun(FALSE)
    /\ UNCHANGED <<API_KEY, harness>>

Next ==
    \/ CheckApiKey \/ RenderPage
    \/ LoadBalance \/ LoadProfit \/ LoadCash
    \/ SummarizeBalance \/ SummarizeProfit \/ SummarizeCash
    \/ ShowSummaries
    \/ VisualizeBalance \/ VisualizeProfit \/ VisualizeCash
    \/ Footer
    \/ Upload \/ Click \/ Reload

Spec == Init /\ [][Next]_vars

(***************************************************************************)
(* Unit harness: one call of load_file, generate_summary or visualize with *)
(* arguments of the caller's choosing and a stubbed remote service.        *)
(***************************************************************************)
NameTxt == <<"n", ".", "t", "x", "t">>
NameNoDot == <<"c", "s", "v">>
NameCsvBak == NameCsv \o <<".", "b">>

HarnessNames == {NameCsv, NameXlsx, NameUpperCsv, NameTxt, NameNoDot, NameCsvBak, DOT_XLSX}

\* a reader interrupted while parsing raises outside the Exception hierarchy
Interrupt == Exc("BaseException", <<"i","n","t">>)

ParseResults == {f \in Frames : Len(f.columns) <= 1} \cup {ParserError, Interrupt}

HarnessFiles ==
    {UploadedFile(n, a, b) : n \in HarnessNames, a \in ParseResults, b \in ParseResults}
        \cup {None}

Labels == {"Balance Sheet", "Profit and Loss", "Cash Flow", "Other", ""}
Titles == {"Balance Sheet Data", "Profit & Loss Data", "Cash Flow Data", ""}

run == <<API_KEY, pc, button, files, datas, summaries, screen, log, calls>>

FnInit ==
    /\ Init
    /\ Truthy(API_KEY)

TestLoadFile ==
    /\ test.fn = "none"
    /\ \E file \in HarnessFiles :
         /\ test' = [fn |-> "load_file", file |-> file]
         /\ result' = load_file(file)
    /\ UNCHANGED run

TestGenerateSummary ==
    /\ test.fn = "none"
    /\ \E data \in Frames \cup {None}, doc_type \in Labels, remote \in Remotes :
         /\ test' = [fn |-> "generate_summary", data |-> data, doc_type |-> doc_type,
                     remote |-> remote]
         /\ result' = generate_summary(data, doc_type, remote)
    /\ UNCHANGED run

TestVisualize ==
    /\ test.fn = "none"
    /\ \E title \in Titles, data \in Frames \cup {None} :
         /\ test' = [fn |-> "visualize", title |-> title, data |-> data]
         /\ result' = [kind |-> "return", value |-> None, shown |-> visualize(title, data)]
    /\ UNCHANGED run

TestDone ==
    /\ test.fn # "none"
    /\ test' = [fn |-> "none"]
    /\ result' = None
    /\ UNCHANGED run

FnNext == TestLoadFile \/ TestGenerateSummary \/ TestVisualize \/ TestDone

FnSpec == FnInit /\ [][FnNext]_vars

(***************************************************************************)
(* What the properties below read off a run.                               *)
(***************************************************************************)
Slots == {"balance", "profit", "cash"}
SummaryLabel == [balance |-> "Balance Sheet", profit |-> "Profit and Loss", cash |-> "Cash Flow"]
TabLabel == [balance |-> "Balance Sheet", profit |-> "Profit & Loss", cash |-> "Cash Flow"]
VizTitle == [balance |-> "Balance Sheet Data", profit |-> "Profit & Loss Data",
             cash |-> "Cash Flow Data"]
FileOf == [balance |-> balance_file, profit |-> profit_file, cash |-> cash_file]
DataOf == [balance |-> balance_data, profit |-> profit_data, cash |-> cash_data]

\* the exchanges with the service made for one slot's label
ExchangesFor(label) == SelectSeq(calls, LAMBDA x : x.prompt.doc_type = label)

\* the texts written into one summary tab
Panel(tab) ==
    LET w == SelectSeq(screen, LAMBDA e : e.st = "write" /\ e.label = tab)
    IN  [i \in 1..Len(w) |-> w[i].text]

\* the element shown right after the heading of one visualization
Follows(title, st, label) ==
    \E i \in 1..(Len(screen) - 1) :
        /\ screen[i].st = "subheader" /\ screen[i].label = title
        /\ screen[i + 1].st = st /\ screen[i + 1].label = label

HandlerFinished == pc = "done" /\ button

\* C1: whichever remote calls fail, the run does not crash and can always
\* take its next step until it has finished; once it has finished, each slot's summary tab holds one text decided by that slot's
\* own exchange alone ("AI Error: " and the details when it raised, the
\* completion when it returned, "No data found." when none was made), and
\* all three visualizations are on the page.
C1_RemoteFailuresStayInline ==
    /\ pc # "crashed"
    /\ pc \notin {"done", "stopped"} => ENABLED Next
    /\ HandlerFinished =>
         \A s \in Slots :
            LET x == ExchangesFor(SummaryLabel[s])
            IN  /\ Panel(TabLabel[s]) =
                     << IF Len(x) = 0 THEN NO_DATA_FOUND
                        ELSE IF x[1].response.kind = "raise"
                             THEN AI_ERROR \o x[1].response.exc.msg
                             ELSE x[1].response.value >>
                /\ \/ Follows(VizTitle[s], "warning", "No data uploaded")
                   \/ Follows(VizTitle[s], "dataframe", "")

C1_Witness ==
    /\ HandlerFinished
    /\ Len(calls) = 3
    /\ calls[1].response.kind = "return"
    /\ calls[2].response.kind = "return"
    /\ calls[3].response.kind = "raise"
    /\ Panel("Cash Flow") = <<AI_ERROR \o <<"t","i","m","e","o","u","t">> >>

\* C5: with the key missing (unset or empty) the run gets no further than
\* the error message: no uploader, no load, no remote call, no summary and
\* no visualization.
C5_MissingKeyHalts ==
    ~Truthy(API_KEY) =>
        /\ pc \in {"start", "stopped"}
        /\ \A i \in DOMAIN screen : screen[i].st = "error"
        /\ log = <<>> /\ calls = <<>>
        /\ \A s \in Slots : DataOf[s] = Unbound
        /\ summaries = <<UnboundStr, UnboundStr, UnboundStr>>

C5_Witness == API_KEY = None /\ pc = "stopped" /\ Len(screen) = 1

\* C7: a run of the handler with no file in any slot makes no remote call,
\* and ends with "No data found." in all three summary tabs and the
\* "No data uploaded" notice in all three visualizations.
C7_NoFilesAtAll ==
    (button /\ files = <<None, None, None>>) =>
        /\ calls = <<>>
        /\ pc = "done" =>
             \A s \in Slots :
                /\ Panel(TabLabel[s]) = <<NO_DATA_FOUND>>
                /\ Follows(VizTitle[s], "warning", "No data uploaded")
                /\ ~Follows(VizTitle[s], "dataframe", "")

C7_Witness ==
    /\ HandlerFinished
    /\ files = <<None, None, None>>
    /\ Panel("Profit & Loss") = <<NO_DATA_FOUND>>

\* C8: every generate_summary invocation carries one of the three labels
\* together with the document load_file gave for that label's own slot, and
\* every prompt sent carries that label and that document's to_dict().
C8_LabelsPairedWithOwnSlot ==
    /\ \A i \in DOMAIN log :
          log[i].op = "generate_summary" =>
             \E s \in Slots :
                /\ log[i].arg = SummaryLabel[s]
                /\ log[i].data = load_file(FileOf[s]).value
    /\ \A i \in DOMAIN calls :
          \E s \in Slots :
             /\ calls[i].prompt.doc_type = SummaryLabel[s]
             /\ load_file(FileOf[s]).value # None
             /\ calls[i].prompt.data_dict = to_dict(load_file(FileOf[s]).value)

C8_Witness ==
    /\ HandlerFinished
    /\ Len(calls) = 2
    /\ balance_data = CsvMixed.as_csv
    /\ profit_data = None
    /\ cash_data = XlsxHeaderOnly.as_xlsx

Step(op, arg) == <<op, arg>>

\* the order of lines 176-224
HandlerOrder ==
    << Step("load_file", "balance_file"), Step("load_file", "profit_file"),
       Step("load_file", "cash_file"),
       Step("generate_summary", "Balance Sheet"), Step("generate_summary", "Profit and Loss"),
       Step("generate_summary", "Cash Flow"),
       Step("st.write", "Balance Sheet"), Step("st.write", "Profit & Loss"),
       Step("st.write", "Cash Flow"),
       Step("visualize", "Balance Sheet Data"), Step("visualize", "Profit & Loss Data"),
       Step("visualize", "Cash Flow Data") >>

\* load then summarize, slot by slot
SlotByOrder ==
    << Step("load_file", "balance_file"), Step("generate_summary", "Balance Sheet"),
       Step("load_file", "profit_file"), Step("generate_summary", "Profit and Loss"),
       Step("load_file", "cash_file"), Step("generate_summary", "Cash Flow"),
       Step("st.write", "Balance Sheet"), Step("st.write", "Profit & Loss"),
       Step("st.write", "Cash Flow"),
       Step("visualize", "Balance Sheet Data"), Step("visualize", "Profit & Loss Data"),
       Step("visualize", "Cash Flow Data") >>

Follow(order) ==
    /\ Len(log) <= Len(order)
    /\ \A i \in DOMAIN log : Step(log[i].op, log[i].arg) = order[i]

\* C9 as stated: each slot is loaded and summarized as one unit before the
\* next slot is loaded, and every display comes after the three summaries.
C9_SlotByOrder == Follow(SlotByOrder)

\* C9 amended: the steps of a run happen one at a time in the order load
\* balance, load profit, load cash, summarize balance, summarize profit,
\* summarize cash, and only then the summary displays and the
\* visualizations.
C9_LoadsThenSummaries == Follow(HandlerOrder)

C9_Witness == HandlerFinished /\ Len(log) = 12 /\ Len(calls) = 3

\* C10: the service is called at most once per slot, never for a slot whose
\* document is None, and once the summaries are made exactly once for each
\* slot whose document is not None, whether that call returned or raised.
C10_NoRetry ==
    \A s \in Slots :
       LET n == Len(ExchangesFor(SummaryLabel[s]))
       IN  /\ n <= 1
           /\ DataOf[s] \in {None, Unbound} => n = 0
           /\ (button /\ pc \in {"show_summaries", "visualize_balance", "visualize_profit",
                                 "visualize_cash", "footer", "done"})
                 => n = (IF DataOf[s] = None THEN 0 ELSE 1)

C10_Witness ==
    /\ HandlerFinished
    /\ Len(calls) = 2
    /\ calls[1].response.kind = "raise"
    /\ calls[2].response.kind = "raise"
    /\ profit_data = None

(***************************************************************************)
(* Properties of the three functions, over the unit harness.               *)
(***************************************************************************)
IsFrame(v) == v.kind = "DataFrame"

\* C2 as stated: for a document that is not None the call returns a
\* non-empty string, the remote completion verbatim or a string beginning
\* with "AI Error: ", whatever the remote call does.
C2_AlwaysNonEmpty ==
    (test.fn = "generate_summary" /\ test.data # None) =>
        /\ result.kind = "return"
        /\ result.value # <<>>
        /\ \/ test.remote.kind = "return" /\ result.value = test.remote.value
           \/ startswith(result.value, AI_ERROR)

\* C2 amended: for a document that is not None the call returns, never
\* raises: the remote completion verbatim when the remote call returned
\* (empty exactly when that completion is empty), and "AI Error: " followed
\* by the failure's message, hence non-empty, when it raised.
C2_CompletionOrAIError ==
    (test.fn = "generate_summary" /\ test.data # None) =>
        /\ result.kind = "return"
        /\ test.remote.kind = "return" => result.value = test.remote.value
        /\ test.remote.kind = "raise" =>
             /\ result.value = AI_ERROR \o test.remote.exc.msg
             /\ startswith(result.value, AI_ERROR)
             /\ result.value # <<>>
        /\ result.value = <<>> => test.remote = Return(<<>>)

C2_Witness ==
    /\ test.fn = "generate_summary"
    /\ test.data # None
    /\ test.remote.kind = "raise"
    /\ result.value = AI_ERROR \o <<"t","i","m","e","o","u","t">>

\* C3: load_file returns for every input, whatever the readers raise: None
\* for no file; for a name ending in ".csv" what read_csv parsed, or None if
\* it raised; for a name ending in ".xlsx" what read_excel parsed, or None if
\* it raised; None for every other name.  What the other reader would make
\* of the content plays no part.
C3_LoadNeverRaises ==
    test.fn = "load_file" =>
        /\ result.kind = "return"
        /\ test.file = None => result.value = None
        /\ test.file # None =>
             LET name == test.file.name
                 n == Len(name)
                 csv == n >= 4 /\ <<name[n - 3], name[n - 2], name[n - 1], name[n]>> = DOT_CSV
                 xlsx == n >= 5 /\ <<name[n - 4], name[n - 3], name[n - 2], name[n - 1], name[n]>>
                                      = DOT_XLSX
             IN  /\ csv => result.value =
                       (IF IsFrame(test.file.as_csv) THEN test.file.as_csv ELSE None)
                 /\ xlsx => result.value =
                       (IF IsFrame(test.file.as_xlsx) THEN test.file.as_xlsx ELSE None)
                 /\ (~csv /\ ~xlsx) => result.value = None

C3_Witness ==
    /\ test.fn = "load_file"
    /\ test.file # None
    /\ test.file.name = NameCsv
    /\ test.file.as_csv = Interrupt
    /\ IsFrame(test.file.as_xlsx)
    /\ result = Return(None)

\* C4: for a None document the call returns exactly "No data found.", for
\* every label, and makes no exchange with the remote service.
C4_AbsentNeedsNoCall ==
    (test.fn = "generate_summary" /\ test.data = None) =>
        /\ result.kind = "return"
        /\ result.value = NO_DATA_FOUND
        /\ result.calls = <<>>

C4_Witness ==
    /\ test.fn = "generate_summary"
    /\ test.data = None
    /\ test.doc_type = "Other"
    /\ test.remote.kind = "raise"
    /\ result.value = NO_DATA_FOUND

NumericColumns(df) == SelectSeq(df.columns, LAMBDA c : c.dtype \in {"int64", "float64"})

Heading(title) == El("subheader", title, <<>>, None)
Table(df) == El("dataframe", "", <<>>, df)
Chart(df) == El("line_chart", "", <<>>, [df EXCEPT !.columns = NumericColumns(df)])
NoNumericData == El("info", "No numeric data available", <<>>, None)
NoDataUploaded == El("warning", "No data uploaded", <<>>, None)

\* C6 as stated: the heading, then the notice for None; the table and a
\* chart of the numeric columns for a document with a numeric column, even
\* with zero rows; the table and the "no numeric data" notice otherwise.
C6_ChartWheneverNumericColumn ==
    test.fn = "visualize" =>
        result.shown =
            IF test.data = None THEN <<Heading(test.title), NoDataUploaded>>
            ELSE IF Len(NumericColumns(test.data)) > 0
                 THEN <<Heading(test.title), Table(test.data), Chart(test.data)>>
                 ELSE <<Heading(test.title), Table(test.data), NoNumericData>>

\* C6 amended: the heading, then exactly one of: the notice for None; the
\* full table and a line chart over exactly the numeric columns for a
\* document with at least one numeric column and at least one row; the full
\* table and the "no numeric data" notice for a document with no numeric
\* column or with zero rows.
C6_ChartNeedsNumericColumnAndRow ==
    test.fn = "visualize" =>
        result.shown =
            IF test.data = None THEN <<Heading(test.title), NoDataUploaded>>
            ELSE IF Len(NumericColumns(test.data)) > 0 /\ test.data.nrows > 0
                 THEN <<Heading(test.title), Table(test.data), Chart(test.data)>>
                 ELSE <<Heading(test.title), Table(test.data), NoNumericData>>

C6_Witness ==
    /\ test.fn = "visualize"
    /\ test.data = DataFrame(<<"object", "float64">>, 1)
    /\ result.shown[3].st = "line_chart"
    /\ result.shown[3].data.columns = <<[name |-> 2, dtype |-> "float64"]>>

====
